---- MODULE Spec2Model ----
(***************************************************************************)
(* Model of external_app.py: the text normalizers, the state canonicalizer, *)
(* the difflib-based similarity scorer and the Streamlit script's matching  *)
(* run over partitions of the uploaded table.                               *)
(*                                                                          *)
(* A Python str is a sequence of one-character strings.  A table cell is a  *)
(* str, Python's None (a SQL NULL read by pd.read_sql) or the float NaN     *)
(* (an empty cell read by pd.read_csv / pd.read_excel).  A similarity is    *)
(* the exact rational [num, den] that difflib's float ratio rounds.         *)
(***************************************************************************)
EXTENDS Integers, Sequences, FiniteSets, TLC

(***************************************************************************)
(* Characters and Python values                                            *)
(***************************************************************************)

\* Python's None and float('nan'): neither is a sequence of characters.
None == <<"None">>
NaN == <<"NaN">>

UpperLetters ==
    <<"A", "B", "C", "D", "E", "F", "G", "H", "I", "J", "K", "L", "M",
      "N", "O", "P", "Q", "R", "S", "T", "U", "V", "W", "X", "Y", "Z">>

LowerLetters ==
    <<"a", "b", "c", "d", "e", "f", "g", "h", "i", "j", "k", "l", "m",
      "n", "o", "p", "q", "r", "s", "t", "u", "v", "w", "x", "y", "z">>

Digits == {"0", "1", "2", "3", "4", "5", "6", "7", "8", "9"}

\* the characters the regex class \s matches
WhitespaceChars == {" ", "\t", "\n", "\r", "\f"}

Range(f) == {f[i] : i \in DOMAIN f}

UpperSet == Range(UpperLetters)

LowerSet == Range(LowerLetters)

\* the characters the regex class \w matches: letters, digits and underscore
WordChars == UpperSet \cup LowerSet \cup Digits \cup {"_"}

IsWordChar(c) == c \in WordChars

IsSpaceChar(c) == c \in WhitespaceChars

\* str.upper() and str.lower() on the letters they change
ToUpper ==
    [c \in LowerSet |-> UpperLetters[CHOOSE i \in DOMAIN LowerLetters : LowerLetters[i] = c]]

ToLower ==
    [c \in UpperSet |-> LowerLetters[CHOOSE i \in DOMAIN UpperLetters : UpperLetters[i] = c]]

\* str.upper() on one character
UpperChar(c) == IF c \in LowerSet THEN ToUpper[c] ELSE c

\* str.lower() on one character
LowerChar(c) == IF c \in UpperSet THEN ToLower[c] ELSE c

Upper(s) == [i \in DOMAIN s |-> UpperChar(s[i])]

Lower(s) == [i \in DOMAIN s |-> LowerChar(s[i])]

\* Python truthiness of a cell: None and "" are falsy, NaN and any other str are truthy
Truthy(x) == x /= None /\ x /= <<>>

\* str(x) of a cell that is not None
Str(x) == IF x = NaN THEN <<"n", "a", "n">> ELSE x

\* str.strip(): drop leading and trailing whitespace
RECURSIVE LStrip(_)
LStrip(s) ==
    IF s /= <<>> /\ IsSpaceChar(Head(s)) THEN LStrip(Tail(s)) ELSE s

RECURSIVE RStrip(_)
RStrip(s) ==
    IF s /= <<>> /\ IsSpaceChar(s[Len(s)])
    THEN RStrip(SubSeq(s, 1, Len(s) - 1))
    ELSE s

Strip(s) == RStrip(LStrip(s))

\* re.sub(r'\s+', ' ', s): every maximal run of whitespace becomes one space
RECURSIVE CollapseWhitespace(_)
CollapseWhitespace(s) ==
    IF s = <<>> THEN <<>>
    ELSE IF IsSpaceChar(Head(s))
         THEN <<" ">> \o CollapseWhitespace(LStrip(s))
         ELSE <<Head(s)>> \o CollapseWhitespace(Tail(s))

\* re.sub(r'[^\w\s]', '', s): only word characters and whitespace survive
StripPunctuation(s) == SelectSeq(s, LAMBDA c : IsWordChar(c) \/ IsSpaceChar(c))

(***************************************************************************)
(* normalize_text                                                          *)
(***************************************************************************)

normalize_text(text) ==
    IF ~Truthy(text) THEN <<>>
    ELSE StripPunctuation(CollapseWhitespace(Strip(Upper(Str(text)))))

(***************************************************************************)
(* normalize_address                                                       *)
(***************************************************************************)

\* address_abbreviations in dict order (the second r'\bST\.$' key is the first one again).
\* kind "word" is r'\bPAT\b', kind "dot" is r'\bPAT\.$'.
address_abbreviations ==
    <<
       [kind |-> "word", pat |-> <<"S", "T", "R", "E", "E", "T">>, rep |-> <<"S", "T">>],
       [kind |-> "dot", pat |-> <<"S", "T">>, rep |-> <<"S", "T">>],
       [kind |-> "word", pat |-> <<"D", "R", "I", "V", "E">>, rep |-> <<"D", "R">>],
       [kind |-> "dot", pat |-> <<"D", "R">>, rep |-> <<"D", "R">>],
       [kind |-> "word", pat |-> <<"W", "A", "Y">>, rep |-> <<"W", "Y">>],
       [kind |-> "dot", pat |-> <<"W", "Y">>, rep |-> <<"W", "Y">>],
       [kind |-> "word", pat |-> <<"H", "I", "G", "H", "W", "A", "Y">>, rep |-> <<"H", "W", "Y">>],
       [kind |-> "dot", pat |-> <<"H", "W", "Y">>, rep |-> <<"H", "W", "Y">>],
       [kind |-> "word", pat |-> <<"C", "O", "U", "R", "T">>, rep |-> <<"C", "T">>],
       [kind |-> "dot", pat |-> <<"C", "T">>, rep |-> <<"C", "T">>],
       [kind |-> "word", pat |-> <<"R", "O", "A", "D">>, rep |-> <<"R", "D">>],
       [kind |-> "dot", pat |-> <<"R", "D">>, rep |-> <<"R", "D">>],
       [kind |-> "word", pat |-> <<"A", "V", "E", "N", "U", "E">>, rep |-> <<"A", "V", "E">>],
       [kind |-> "dot", pat |-> <<"A", "V", "E">>, rep |-> <<"A", "V", "E">>],
       [kind |-> "word", pat |-> <<"B", "O", "U", "L", "E", "V", "A", "R", "D">>, rep |-> <<"B", "L", "V", "D">>],
       [kind |-> "dot", pat |-> <<"B", "L", "V", "D">>, rep |-> <<"B", "L", "V", "D">>],
       [kind |-> "word", pat |-> <<"L", "A", "N", "E">>, rep |-> <<"L", "N">>],
       [kind |-> "dot", pat |-> <<"L", "N">>, rep |-> <<"L", "N">>],
       [kind |-> "word", pat |-> <<"P", "L", "A", "C", "E">>, rep |-> <<"P", "L">>],
       [kind |-> "dot", pat |-> <<"P", "L">>, rep |-> <<"P", "L">>],
       [kind |-> "word", pat |-> <<"C", "I", "R", "C", "L", "E">>, rep |-> <<"C", "I", "R">>],
       [kind |-> "dot", pat |-> <<"C", "I", "R">>, rep |-> <<"C", "I", "R">>],
       [kind |-> "word", pat |-> <<"S", "Q", "U", "A", "R", "E">>, rep |-> <<"S", "Q">>],
       [kind |-> "dot", pat |-> <<"S", "Q">>, rep |-> <<"S", "Q">>],
       [kind |-> "word", pat |-> <<"N", "O", "R", "T", "H">>, rep |-> <<"N">>],
       [kind |-> "dot", pat |-> <<"N">>, rep |-> <<"N">>],
       [kind |-> "word", pat |-> <<"S", "O", "U", "T", "H">>, rep |-> <<"S">>],
       [kind |-> "dot", pat |-> <<"S">>, rep |-> <<"S">>],
       [kind |-> "word", pat |-> <<"E", "A", "S", "T">>, rep |-> <<"E">>],
       [kind |-> "dot", pat |-> <<"E">>, rep |-> <<"E">>],
       [kind |-> "word", pat |-> <<"W", "E", "S", "T">>, rep |-> <<"W">>],
       [kind |-> "dot", pat |-> <<"W">>, rep |-> <<"W">>],
       [kind |-> "word", pat |-> <<"S", "A", "I", "N", "T">>, rep |-> <<"S", "T">>]
    >>

\* whether pat occurs in s at position i (1-based)
OccursAt(s, pat, i) ==
    /\ i + Len(pat) - 1 <= Len(s)
    /\ \A k \in 1..Len(pat) : s[i + k - 1] = pat[k]

\* \b before position i and after position i + n - 1, for a pattern of word characters
BoundaryBefore(s, i) == i = 1 \/ ~IsWordChar(s[i - 1])

BoundaryAfter(s, j) == j = Len(s) \/ ~IsWordChar(s[j + 1])

\* re.sub(r'\bPAT\b', rep, s): leftmost non-overlapping whole-word occurrences, scanning from i
RECURSIVE SubWordFrom(_, _, _, _)
SubWordFrom(s, pat, rep, i) ==
    IF i > Len(s) THEN <<>>
    ELSE IF /\ OccursAt(s, pat, i)
            /\ BoundaryBefore(s, i)
            /\ BoundaryAfter(s, i + Len(pat) - 1)
         THEN rep \o SubWordFrom(s, pat, rep, i + Len(pat))
         ELSE <<s[i]>> \o SubWordFrom(s, pat, rep, i + 1)

\* re.sub(r'\bPAT\.$', rep, s): PAT followed by a dot at the very end of the string
\* ($ also matches before a final newline, which the stripped string never has)
SubDotEnd(s, pat, rep) ==
    LET i == Len(s) - Len(pat) IN
    IF /\ i >= 1
       /\ s[Len(s)] = "."
       /\ OccursAt(s, pat, i)
       /\ BoundaryBefore(s, i)
    THEN SubSeq(s, 1, i - 1) \o rep
    ELSE s

\* one re.sub of the table (a pattern longer than the text matches nowhere)
ApplyRule(s, rule) ==
    IF Len(rule.pat) > Len(s) THEN s
    ELSE IF rule.kind = "word" THEN SubWordFrom(s, rule.pat, rule.rep, 1)
    ELSE SubDotEnd(s, rule.pat, rule.rep)

\* for pattern, replacement in address_abbreviations.items(): normalized = re.sub(...)
\* (comparing the substituted text with s makes TLC evaluate it before the next rule)
RECURSIVE ApplyRules(_, _, _)
ApplyRules(s, rules, k) ==
    IF k > Len(rules) THEN s
    ELSE LET substituted == ApplyRule(s, rules[k]) IN
         IF substituted = s THEN ApplyRules(s, rules, k + 1)
         ELSE ApplyRules(substituted, rules, k + 1)

normalize_address(text) ==
    IF ~Truthy(text) THEN <<>>
    ELSE LET collapsed == CollapseWhitespace(Strip(Upper(Str(text))))
             abbreviated == ApplyRules(collapsed, address_abbreviations, 1)
         IN Strip(CollapseWhitespace(StripPunctuation(abbreviated)))

(***************************************************************************)
(* convert_state_to_abbrev                                                 *)
(***************************************************************************)

\* STATE_MAPPING: <<full name, code>> in source order
STATE_MAPPING ==
    <<
       <<<<"A", "L", "A", "B", "A", "M", "A">>, <<"A", "L">>>>,
       <<<<"A", "L", "A", "S", "K", "A">>, <<"A", "K">>>>,
       <<<<"A", "R", "I", "Z", "O", "N", "A">>, <<"A", "Z">>>>,
       <<<<"A", "R", "K", "A", "N", "S", "A", "S">>, <<"A", "R">>>>,
       <<<<"C", "A", "L", "I", "F", "O", "R", "N", "I", "A">>, <<"C", "A">>>>,
       <<<<"C", "O", "L", "O", "R", "A", "D", "O">>, <<"C", "O">>>>,
       <<<<"C", "O", "N", "N", "E", "C", "T", "I", "C", "U", "T">>, <<"C", "T">>>>,
       <<<<"D", "E", "L", "A", "W", "A", "R", "E">>, <<"D", "E">>>>,
       <<<<"F", "L", "O", "R", "I", "D", "A">>, <<"F", "L">>>>,
       <<<<"G", "E", "O", "R", "G", "I", "A">>, <<"G", "A">>>>,
       <<<<"H", "A", "W", "A", "I", "I">>, <<"H", "I">>>>,
       <<<<"I", "D", "A", "H", "O">>, <<"I", "D">>>>,
       <<<<"I", "L", "L", "I", "N", "O", "I", "S">>, <<"I", "L">>>>,
       <<<<"I", "N", "D", "I", "A", "N", "A">>, <<"I", "N">>>>,
       <<<<"I", "O", "W", "A">>, <<"I", "A">>>>,
       <<<<"K", "A", "N", "S", "A", "S">>, <<"K", "S">>>>,
       <<<<"K", "E", "N", "T", "U", "C", "K", "Y">>, <<"K", "Y">>>>,
       <<<<"L", "O", "U", "I", "S", "I", "A", "N", "A">>, <<"L", "A">>>>,
       <<<<"M", "A", "I", "N", "E">>, <<"M", "E">>>>,
       <<<<"M", "A", "R", "Y", "L", "A", "N", "D">>, <<"M", "D">>>>,
       <<<<"M", "A", "S", "S", "A", "C", "H", "U", "S", "E", "T", "T", "S">>, <<"M", "A">>>>,
       <<<<"M", "I", "C", "H", "I", "G", "A", "N">>, <<"M", "I">>>>,
       <<<<"M", "I", "N", "N", "E", "S", "O", "T", "A">>, <<"M", "N">>>>,
       <<<<"M", "I", "S", "S", "I", "S", "S", "I", "P", "P", "I">>, <<"M", "S">>>>,
       <<<<"M", "I", "S", "S", "O", "U", "R", "I">>, <<"M", "O">>>>,
       <<<<"M", "O", "N", "T", "A", "N", "A">>, <<"M", "T">>>>,
       <<<<"N", "E", "B", "R", "A", "S", "K", "A">>, <<"N", "E">>>>,
       <<<<"N", "E", "V", "A", "D", "A">>, <<"N", "V">>>>,
       <<<<"N", "E", "W", " ", "H", "A", "M", "P", "S", "H", "I", "R", "E">>, <<"N", "H">>>>,
       <<<<"N", "E", "W", " ", "J", "E", "R", "S", "E", "Y">>, <<"N", "J">>>>,
       <<<<"N", "E", "W", " ", "M", "E", "X", "I", "C", "O">>, <<"N", "M">>>>,
       <<<<"N", "E", "W", " ", "Y", "O", "R", "K">>, <<"N", "Y">>>>,
       <<<<"N", "O", "R", "T", "H", " ", "C", "A", "R", "O", "L", "I", "N", "A">>, <<"N", "C">>>>,
       <<<<"N", "O", "R", "T", "H", " ", "D", "A", "K", "O", "T", "A">>, <<"N", "D">>>>,
       <<<<"O", "H", "I", "O">>, <<"O", "H">>>>,
       <<<<"O", "K", "L", "A", "H", "O", "M", "A">>, <<"O", "K">>>>,
       <<<<"O", "R", "E", "G", "O", "N">>, <<"O", "R">>>>,
       <<<<"P", "E", "N", "N", "S", "Y", "L", "V", "A", "N", "I", "A">>, <<"P", "A">>>>,
       <<<<"R", "H", "O", "D", "E", " ", "I", "S", "L", "A", "N", "D">>, <<"R", "I">>>>,
       <<<<"S", "O", "U", "T", "H", " ", "C", "A", "R", "O", "L", "I", "N", "A">>, <<"S", "C">>>>,
       <<<<"S", "O", "U", "T", "H", " ", "D", "A", "K", "O", "T", "A">>, <<"S", "D">>>>,
       <<<<"T", "E", "N", "N", "E", "S", "S", "E", "E">>, <<"T", "N">>>>,
       <<<<"T", "E", "X", "A", "S">>, <<"T", "X">>>>,
       <<<<"U", "T", "A", "H">>, <<"U", "T">>>>,
       <<<<"V", "E", "R", "M", "O", "N", "T">>, <<"V", "T">>>>,
       <<<<"V", "I", "R", "G", "I", "N", "I", "A">>, <<"V", "A">>>>,
       <<<<"W", "A", "S", "H", "I", "N", "G", "T", "O", "N">>, <<"W", "A">>>>,
       <<<<"W", "E", "S", "T", " ", "V", "I", "R", "G", "I", "N", "I", "A">>, <<"W", "V">>>>,
       <<<<"W", "I", "S", "C", "O", "N", "S", "I", "N">>, <<"W", "I">>>>,
       <<<<"W", "Y", "O", "M", "I", "N", "G">>, <<"W", "Y">>>>,
       <<<<"D", "I", "S", "T", "R", "I", "C", "T", " ", "O", "F", " ", "C", "O", "L", "U", "M", "B", "I", "A">>, <<"D", "C">>>>
    >>

\* STATE_MAPPING.get(key, default)
StateMappingGet(key, default) ==
    IF \E i \in DOMAIN STATE_MAPPING : STATE_MAPPING[i][1] = key
    THEN STATE_MAPPING[CHOOSE i \in DOMAIN STATE_MAPPING : STATE_MAPPING[i][1] = key][2]
    ELSE default

convert_state_to_abbrev(state) ==
    IF ~Truthy(state) THEN state
    ELSE LET state_upper == Strip(Upper(Str(state))) IN
         IF Len(state_upper) = 2 THEN state_upper
         ELSE StateMappingGet(state_upper, state_upper)

(***************************************************************************)
(* simple_similarity: difflib.SequenceMatcher(None, a, b).ratio()          *)
(***************************************************************************)

\* length of the common block of a and b starting at a[i], b[j], kept inside a[..ahi], b[..bhi]
RECURSIVE BlockLen(_, _, _, _, _, _)
BlockLen(a, b, i, j, ahi, bhi) ==
    IF i <= ahi /\ j <= bhi /\ a[i] = b[j]
    THEN 1 + BlockLen(a, b, i + 1, j + 1, ahi, bhi)
    ELSE 0

\* find_longest_match(alo, ahi, blo, bhi) over the inclusive 1-based windows a[alo..ahi],
\* b[blo..bhi]: the longest common block; among the longest the one starting earliest
\* in a, and among those the one starting earliest in b; <<alo, blo, 0>> when none.
\* (No element is junk: isjunk is None and autojunk needs len(b) >= 200.)
find_longest_match(a, b, alo, ahi, blo, bhi) ==
    LET cells == (alo..ahi) \X (blo..bhi)
        size == [c \in cells |-> BlockLen(a, b, c[1], c[2], ahi, bhi)]
        best == IF cells = {} THEN 0
                ELSE CHOOSE k \in Range(size) : \A c \in cells : size[c] <= k
    IN IF best = 0 THEN <<alo, blo, 0>>
       ELSE LET besti == CHOOSE i \in alo..ahi :
                            /\ \E j \in blo..bhi : size[<<i, j>>] = best
                            /\ \A i2 \in alo..(i - 1) : \A j \in blo..bhi : size[<<i2, j>>] < best
                bestj == CHOOSE j \in blo..bhi :
                            /\ size[<<besti, j>>] = best
                            /\ \A j2 \in blo..(j - 1) : size[<<besti, j2>>] < best
            IN <<besti, bestj, best>>

\* sum of the sizes of get_matching_blocks(): the longest block, then recursively the
\* pieces to its left and to its right
RECURSIVE MatchedCount(_, _, _, _, _, _)
MatchedCount(a, b, alo, ahi, blo, bhi) ==
    IF alo > ahi \/ blo > bhi THEN 0
    ELSE LET m == find_longest_match(a, b, alo, ahi, blo, bhi)
             i == m[1]
             j == m[2]
             k == m[3]
         IN IF k = 0 THEN 0
            ELSE k + MatchedCount(a, b, alo, i - 1, blo, j - 1)
                   + MatchedCount(a, b, i + k, ahi, j + k, bhi)

\* SequenceMatcher.ratio(): 2.0 * matches / (len(a) + len(b)), 1.0 when both are empty
SequenceMatcherRatio(a, b) ==
    IF Len(a) + Len(b) = 0 THEN [num |-> 1, den |-> 1]
    ELSE [num |-> 2 * MatchedCount(a, b, 1, Len(a), 1, Len(b)), den |-> Len(a) + Len(b)]

\* the scorer without its .lower() calls
simple_similarity_CaseSensitive(str1, str2) ==
    IF ~Truthy(str1) \/ ~Truthy(str2) THEN [num |-> 0, den |-> 1]
    ELSE SequenceMatcherRatio(str1, str2)

simple_similarity(str1, str2) ==
    IF ~Truthy(str1) \/ ~Truthy(str2) THEN [num |-> 0, den |-> 1]
    ELSE SequenceMatcherRatio(Lower(str1), Lower(str2))

\* a float has no .lower(): the call raises when both arguments are truthy and one is NaN
simple_similarity_raises(str1, str2) ==
    Truthy(str1) /\ Truthy(str2) /\ (str1 = NaN \/ str2 = NaN)

AttributeError == [raised |-> "AttributeError"]

\* what a call of simple_similarity does: the exception it raises or the score it returns
simple_similarity_outcome(str1, str2) ==
    IF simple_similarity_raises(str1, str2) THEN AttributeError
    ELSE simple_similarity(str1, str2)

Returned(outcome) == "num" \in DOMAIN outcome

(***************************************************************************)
(* Inputs of a run: the uploaded file, the CRM view and the two sliders     *)
(***************************************************************************)

\* bounds of the model
MaxRows == 2
MaxRuns == 1

\* max_retries of execute_query_safe
max_retries == 3

\* required (line 230)
required ==
    {"companyName", "companyAddress", "companyAddress2",
     "companyCity", "companyState", "companyZipCode"}

\* rows an uploaded file may hold: free text as typed, an empty cell read as NaN
UploadPool ==
    { [companyName |-> <<"a", ".", "b">>, companyAddress |-> <<"1", " ", "w", "a", "y">>,
       companyAddress2 |-> <<"#", "2">>, companyCity |-> <<"L", "A">>,
       companyState |-> <<"c", "a">>, companyZipCode |-> <<"9">>],
      [companyName |-> <<"A", "C">>, companyAddress |-> <<"3", " ", "R", "d">>,
       companyAddress2 |-> NaN, companyCity |-> <<"E", "P">>,
       companyState |-> <<"T", "e", "x", "a", "s">>, companyZipCode |-> <<"7">>],
      [companyName |-> NaN, companyAddress |-> <<"1", " ", "W", "y", ".">>,
       companyAddress2 |-> NaN, companyCity |-> <<"S", "F">>,
       companyState |-> <<"C", "A">>, companyZipCode |-> <<"9">>],
      [companyName |-> <<"A", "B">>, companyAddress |-> <<"1", " ", "W", "Y">>,
       companyAddress2 |-> NaN, companyCity |-> NaN,
       companyState |-> NaN, companyZipCode |-> <<"9">>] }

\* the rows of VW_CRM_MATCH_KEYS, in the order the view returns them; NULL is None
CrmView ==
    << [systemId |-> 1, companyName |-> <<"A", "B">>,
        companyAddress |-> <<"1", " ", "W", "A", "Y">>, companyState |-> <<"C", "A">>],
       [systemId |-> 2, companyName |-> <<"A", "n">>,
        companyAddress |-> <<"2", " ", "W", "y", ".">>, companyState |-> <<"C", "A">>],
       [systemId |-> 3, companyName |-> <<"A", "C">>,
        companyAddress |-> <<"2", " ", "R", "O", "A", "D">>, companyState |-> <<"T", "X">>],
       [systemId |-> 4, companyName |-> <<"A", "C">>,
        companyAddress |-> None, companyState |-> <<"T", "X">>] >>

\* slider values in hundredths (sliders run 0.0 .. 1.0 in steps of 0.01; defaults 0.8 and 0.7)
NameThresholds == {50, 80}

AddressThresholds == {70, 75}

\* st.file_uploader returns None: no file is uploaded
NoFile == [columns |-> {}, rows |-> <<>>]

\* the tables a file may hold
RECURSIVE SeqsUpTo(_, _)
SeqsUpTo(S, n) ==
    IF n = 0 THEN {<<>>}
    ELSE LET shorter == SeqsUpTo(S, n - 1) IN
         shorter \cup {Append(s, x) : s \in {q \in shorter : Len(q) = n - 1}, x \in S}

UploadTables == {rows \in SeqsUpTo(UploadPool, MaxRows) : rows /= <<>>}

\* the column sets a file may have: all six required columns, or one of them missing
ColumnSets == {required} \cup {required \ {c} : c \in required}

(***************************************************************************)
(* State                                                                   *)
(***************************************************************************)

VARIABLES
    processing,         \* st.session_state.processing
    session_matches,    \* st.session_state.matches
    processed_data,     \* st.session_state.processed_data (None or the table)
    pc,                 \* where the script is
    uploaded,           \* the uploaded file: NoFile or [columns, rows]
    df,                 \* the uploaded table with its derived columns
    name_threshold,     \* slider, hundredths
    address_threshold,  \* slider, hundredths
    matches,            \* the local list of the run
    unique_states,      \* df['state_abbrev'].unique()
    state_idx,          \* 1-based position in unique_states
    state_df,           \* indexes (into df) of the rows of the current partition
    attempt,            \* attempt of execute_query_safe, 0-based
    crm_df,             \* the fetched rows with their normalized columns
    crm_for,            \* the state_abbrev the query of crm_df was built with
    row_pos,            \* 1-based position in state_df
    crm_pos,            \* 1-based position in crm_df
    processed_records,  \* progress counter
    runs,               \* Start Processing clicks so far
    cancelled,          \* history: Cancel Processing was clicked during this run
    scan_log,           \* history: the df indexes of the rows whose scan started in this run
    fetch_log,          \* history: one entry per execute_query_safe call of this run
    cmp_log,            \* history: one entry per compared pair of this run
    fn_name,            \* pure-function harness: the function applied
    fn_in,              \* pure-function harness: the drawn input
    fn_out,             \* pure-function harness: the outputs so far
    conn,               \* execute_query_safe: the local conn (None or a connection)
    open_conns,         \* the connections to Snowflake that are open
    attempt_log,        \* execute_query_safe: how the attempts of the call so far ended;
                        \* once it has returned, how its last attempt ended
    download_buttons    \* the page: the data the download buttons of lines 748-788 serve,
                        \* st.session_state.download_data as the results block of the
                        \* script run filled it; no button when the block is not rendered

run_vars ==
    <<matches, unique_states, state_idx, state_df, attempt, crm_df, crm_for,
      row_pos, crm_pos, processed_records>>

hist_vars == <<cancelled, scan_log, fetch_log, cmp_log>>

fn_vars == <<fn_name, fn_in, fn_out>>

io_vars == <<conn, open_conns, attempt_log, download_buttons>>

vars ==
    <<processing, session_matches, processed_data, pc, uploaded, df,
      name_threshold, address_threshold, runs, run_vars, hist_vars, fn_vars, io_vars>>

(***************************************************************************)
(* Helpers of the script                                                   *)
(***************************************************************************)

\* Data preprocessing (lines 237-239): the three derived columns of one row
Preprocess(row) ==
    [companyName |-> row.companyName,
     companyAddress |-> row.companyAddress,
     companyAddress2 |-> row.companyAddress2,
     companyCity |-> row.companyCity,
     companyState |-> row.companyState,
     companyZipCode |-> row.companyZipCode,
     state_abbrev |-> convert_state_to_abbrev(row.companyState),
     normalized_address |-> normalize_address(row.companyAddress),
     normalized_company_name |-> normalize_text(row.companyName)]

\* pandas ==: a missing value (None, NaN) equals nothing, itself included
PandasEq(x, y) == x = y /\ x \notin {None, NaN}

\* Series.unique(): the distinct values in order of first appearance
RECURSIVE UniqueFrom(_, _, _)
UniqueFrom(s, i, seen) ==
    IF i > Len(s) THEN seen
    ELSE IF \E k \in DOMAIN seen : seen[k] = s[i]
         THEN UniqueFrom(s, i + 1, seen)
         ELSE UniqueFrom(s, i + 1, Append(seen, s[i]))

Unique(s) == UniqueFrom(s, 1, <<>>)

\* variant of StateDf without the filter: every row of the table in every partition
StateDf_WholeTable(table, state_abbrev) == [i \in DOMAIN table |-> i]

\* state_df = df[df['state_abbrev'] == state_abbrev] (line 291), as row indexes of df
RECURSIVE StateDfFrom(_, _, _)
StateDfFrom(table, state_abbrev, i) ==
    IF i > Len(table) THEN <<>>
    ELSE (IF PandasEq(table[i].state_abbrev, state_abbrev) THEN <<i>> ELSE <<>>)
         \o StateDfFrom(table, state_abbrev, i + 1)

StateDf(table, state_abbrev) == StateDfFrom(table, state_abbrev, 1)

\* the rows crm_query returns: WHERE "companyState" = '{state_abbrev}' (lines 297-401)
CrmQuery(state_abbrev) ==
    SelectSeq(CrmView, LAMBDA r : r.companyState /= None /\ r.companyState = Str(state_abbrev))

\* Normalize CRM data (lines 412-413)
NormalizeCrm(rows) ==
    [i \in DOMAIN rows |->
        [systemId |-> rows[i].systemId,
         companyName |-> rows[i].companyName,
         companyAddress |-> rows[i].companyAddress,
         companyState |-> rows[i].companyState,
         normalized_company_name |-> normalize_text(rows[i].companyName),
         normalized_address |-> normalize_address(rows[i].companyAddress)]]

\* r >= t for a ratio r and a slider value t in hundredths
RatioGE(r, t) == r.num * 100 >= t * r.den

\* variant of NameSim that reads the raw companyName columns
NameSim_Raw(uploaded_row, crm_row) ==
    simple_similarity(uploaded_row.companyName, crm_row.companyName)

\* name_sim (line 429)
NameSim(uploaded_row, crm_row) ==
    simple_similarity(uploaded_row.normalized_company_name, crm_row.normalized_company_name)

\* address_sim (line 430)
AddressSim(uploaded_row, crm_row) ==
    simple_similarity(uploaded_row.normalized_address, crm_row.normalized_address)

\* variant of Qualifies with > in place of >=
Qualifies_Strict(name_sim, address_sim, name_thr, address_thr) ==
    /\ name_sim.num * 100 > name_thr * name_sim.den
    /\ address_sim.num * 100 > address_thr * address_sim.den

\* if name_sim >= name_threshold and address_sim >= address_threshold (line 432)
Qualifies(name_sim, address_sim, name_thr, address_thr) ==
    RatioGE(name_sim, name_thr) /\ RatioGE(address_sim, address_thr)

\* variant of CombinedScore without the division by 2
CombinedScore_Sum(name_sim, address_sim) ==
    [num |-> name_sim.num * address_sim.den + address_sim.num * name_sim.den,
     den |-> name_sim.den * address_sim.den]

\* (name_sim + address_sim) / 2 (line 446)
CombinedScore(name_sim, address_sim) ==
    [num |-> name_sim.num * address_sim.den + address_sim.num * name_sim.den,
     den |-> 2 * name_sim.den * address_sim.den]

\* the match dict (lines 434-565)
Match(uploaded_row, crm_row, name_sim, address_sim) ==
    [UPLOADED_COMPANY_NAME |-> uploaded_row.companyName,
     UPLOADED_ADDRESS |-> uploaded_row.companyAddress,
     UPLOADED_CITY |-> uploaded_row.companyCity,
     UPLOADED_STATE |-> uploaded_row.companyState,
     UPLOADED_STATE_ABBREV |-> uploaded_row.state_abbrev,
     UPLOADED_ZIP |-> uploaded_row.companyZipCode,
     NAME_SIMILARITY |-> name_sim,
     ADDRESS_SIMILARITY |-> address_sim,
     COMBINED_SCORE |-> CombinedScore(name_sim, address_sim),
     CRM_SYSTEM_ID |-> crm_row.systemId,
     CRM_COMPANY_NAME |-> crm_row.companyName,
     CRM_COMPANY_ADDRESS |-> crm_row.companyAddress,
     CRM_COMPANY_STATE |-> crm_row.companyState]

\* similarity_fields (line 626)
similarity_fields == {"NAME_SIMILARITY", "ADDRESS_SIMILARITY", "COMBINED_SCORE"}

\* selectable_fields (line 627): the columns of matches_df that are not scores
selectable_fields ==
    {"UPLOADED_COMPANY_NAME", "UPLOADED_ADDRESS", "UPLOADED_CITY", "UPLOADED_STATE",
     "UPLOADED_STATE_ABBREV", "UPLOADED_ZIP", "CRM_SYSTEM_ID", "CRM_COMPANY_NAME",
     "CRM_COMPANY_ADDRESS", "CRM_COMPANY_STATE"}

\* default_fields (lines 641-658): of the columns modelled, every selectable one
default_fields == selectable_fields

\* what the multiselect of line 664 can hold: the default, a narrower choice, nothing
FieldSelections == {default_fields, {"UPLOADED_COMPANY_NAME", "CRM_SYSTEM_ID"}, {}}

\* lines 695-702: the selected columns plus the three scores, or every column when
\* nothing is selected
ExportDf(matches_df, selected_fields) ==
    IF selected_fields = {} THEN matches_df
    ELSE [i \in DOMAIN matches_df |->
            [field \in selected_fields \cup similarity_fields |-> matches_df[i][field]]]

\* line 726: export_df[export_df['COMBINED_SCORE'] >= 0.9]
HighConf(export_df) == SelectSeq(export_df, LAMBDA row : RatioGE(row.COMBINED_SCORE, 90))

\* variant of MedConf with the cutoff of the high view
MedConf_HighCutoff(export_df) == SelectSeq(export_df, LAMBDA row : RatioGE(row.COMBINED_SCORE, 90))

\* line 734: export_df[export_df['COMBINED_SCORE'] >= 0.8]
MedConf(export_df) == SelectSeq(export_df, LAMBDA row : RatioGE(row.COMBINED_SCORE, 80))

\* DataFrame.to_csv(index=False): the text that lists the table row by row
to_csv(table) == <<"csv", table>>

\* lines 719-739: the three download entries; an empty high or medium table is stored
\* as None
DownloadData(export_df) ==
    [all |-> to_csv(export_df),
     high |-> IF HighConf(export_df) = <<>> THEN None ELSE to_csv(HighConf(export_df)),
     medium |-> IF MedConf(export_df) = <<>> THEN None ELSE to_csv(MedConf(export_df))]

\* uploaded_row['companyName'][:30] (line 571) raises TypeError unless the cell is a str
Subscriptable(x) == x \notin {None, NaN}

(***************************************************************************)
(* Initial state: the session state of lines 169-178, no file uploaded yet *)
(***************************************************************************)

\* the page without the results block: no download button is rendered
NoDownloads == [all |-> None, high |-> None, medium |-> None]

\* the pure-function harness at rest
FnIdle == fn_name = "" /\ fn_in = <<>> /\ fn_out = <<>>

\* the script's locals before any run
RunIdle ==
    /\ matches = <<>>
    /\ unique_states = <<>>
    /\ state_idx = 1
    /\ state_df = <<>>
    /\ attempt = 0
    /\ crm_df = <<>>
    /\ crm_for = None
    /\ row_pos = 1
    /\ crm_pos = 1
    /\ processed_records = 0

SessionInit ==
    /\ processing = FALSE
    /\ session_matches = <<>>
    /\ processed_data = None
    /\ uploaded = NoFile
    /\ df = <<>>
    /\ name_threshold = 80
    /\ address_threshold = 70
    /\ runs = 0
    /\ cancelled = FALSE
    /\ scan_log = <<>>
    /\ fetch_log = <<>>
    /\ cmp_log = <<>>
    /\ RunIdle
    /\ conn = None
    /\ open_conns = 0
    /\ attempt_log = <<>>
    /\ download_buttons = NoDownloads

Init == SessionInit /\ pc = "idle" /\ FnIdle

(***************************************************************************)
(* The script: upload, validation, preprocessing                           *)
(***************************************************************************)

\* where the script is while the partition loop of a run is executing
RunPcs == {"partition", "query", "read_sql", "rows", "compare", "progress", "complete"}

\* st.file_uploader (line 201): the user uploads a file
Upload ==
    /\ pc = "idle"
    /\ \E columns \in ColumnSets, rows \in UploadTables :
          uploaded' = [columns |-> columns, rows |-> rows]
    /\ pc' = "loaded"
    /\ UNCHANGED <<processing, session_matches, processed_data, df, name_threshold,
                   address_threshold, runs, run_vars, hist_vars, fn_vars, io_vars>>

\* variant of ColumnsValid with any() in place of all()
ColumnsValid_Any(columns) == \E col \in required : col \in columns

\* all(col in df.columns for col in required) (line 231)
ColumnsValid(columns) == \A col \in required : col \in columns

\* lines 231-233: a required column is missing: st.error, st.stop
ValidateStop ==
    /\ pc = "loaded"
    /\ uploaded /= NoFile
    /\ ~processing
    /\ ~ColumnsValid(uploaded.columns)
    /\ pc' = "stopped"
    /\ UNCHANGED <<processing, session_matches, processed_data, uploaded, df,
                   name_threshold, address_threshold, runs, run_vars, hist_vars, fn_vars,
                   io_vars>>

\* lines 235-241: the derived columns, then st.session_state.processed_data = df
PreprocessData ==
    /\ pc = "loaded"
    /\ uploaded /= NoFile
    /\ ~processing
    /\ ColumnsValid(uploaded.columns)
    /\ df' = [i \in DOMAIN uploaded.rows |-> Preprocess(uploaded.rows[i])]
    /\ processed_data' = df'
    /\ pc' = "ready"
    /\ UNCHANGED <<processing, session_matches, uploaded, name_threshold,
                   address_threshold, runs, run_vars, hist_vars, fn_vars, io_vars>>

(***************************************************************************)
(* The Start Processing handler (lines 256-595)                            *)
(***************************************************************************)

\* lines 203-256: the script has run to its end below the upload gate
\* (if uploaded and not st.session_state.processing) and rendered the Start Processing button
StartOffered ==
    /\ pc = "ready"
    /\ uploaded /= NoFile
    /\ ~processing

\* lines 256-284: the button is rendered only below the upload gate of line 203; the script
\* run that handles the click clears st.session_state.matches (line 258), so it renders no
\* results block (line 598) and the page loses its download buttons
StartProcessing ==
    /\ StartOffered
    /\ runs < MaxRuns
    /\ \E nt \in NameThresholds, at \in AddressThresholds :
          /\ name_threshold' = nt
          /\ address_threshold' = at
    /\ processing' = TRUE
    /\ session_matches' = <<>>
    /\ matches' = <<>>
    /\ unique_states' = Unique([i \in DOMAIN df |-> df[i].state_abbrev])
    /\ state_idx' = 1
    /\ processed_records' = 0
    /\ runs' = runs + 1
    /\ cancelled' = FALSE
    /\ scan_log' = <<>>
    /\ fetch_log' = <<>>
    /\ cmp_log' = <<>>
    /\ download_buttons' = NoDownloads
    /\ pc' = "partition"
    /\ UNCHANGED <<processed_data, uploaded, df, state_df, attempt, crm_df, crm_for,
                   row_pos, crm_pos, fn_vars, conn, open_conns, attempt_log>>

\* line 286: for state_idx, state_abbrev in enumerate(unique_states) has no next element
PartitionsExhausted ==
    /\ pc = "partition"
    /\ state_idx > Len(unique_states)
    /\ pc' = "complete"
    /\ UNCHANGED <<processing, session_matches, processed_data, uploaded, df,
                   name_threshold, address_threshold, runs, run_vars, hist_vars, fn_vars,
                   io_vars>>

\* lines 287-288: if not st.session_state.processing: break
PartitionLoopCancelled == ~processing

PartitionBreak ==
    /\ pc = "partition"
    /\ state_idx <= Len(unique_states)
    /\ PartitionLoopCancelled
    /\ pc' = "complete"
    /\ UNCHANGED <<processing, session_matches, processed_data, uploaded, df,
                   name_threshold, address_threshold, runs, run_vars, hist_vars, fn_vars,
                   io_vars>>

\* lines 290-403: the partition's rows, then the call of execute_query_safe(crm_query)
PartitionBegin ==
    /\ pc = "partition"
    /\ state_idx <= Len(unique_states)
    /\ ~PartitionLoopCancelled
    /\ state_df' = StateDf(df, unique_states[state_idx])
    /\ attempt' = 0
    /\ attempt_log' = <<>>
    /\ fetch_log' = Append(fetch_log, [state |-> unique_states[state_idx], result |-> "pending"])
    /\ pc' = "query"
    /\ UNCHANGED <<processing, session_matches, processed_data, uploaded, df,
                   name_threshold, address_threshold, runs, matches, unique_states,
                   state_idx, crm_df, crm_for, row_pos, crm_pos, processed_records,
                   cancelled, scan_log, cmp_log, fn_vars, conn, open_conns, download_buttons>>

\* variant of EmptyResultContinue with break in place of continue
EmptyResultBreak ==
    /\ state_idx' = state_idx
    /\ pc' = "complete"

\* lines 405-407: if crm_df.empty: continue
EmptyResultContinue ==
    /\ state_idx' = state_idx + 1
    /\ pc' = "partition"

\* where the script is while execute_query_safe is executing: at the top of an attempt
\* (conn = None, line 68) or holding the connection get_conn_with_retry returned (line 74)
QueryPcs == {"query", "read_sql"}

\* the messages str(e) can give, each as the set of the searched substrings it contains
ErrorMsgs == {{"502"}, {"404"}, {"Connection"}, {}}

\* variant of Retriable that takes every failure for a connection issue
Retriable_Always(error_msg) == TRUE

\* line 80: "502" in error_msg or "404" in error_msg or "Connection" in error_msg
Retriable(error_msg) ==
    "502" \in error_msg \/ "404" \in error_msg \/ "Connection" \in error_msg

\* variant of ConnClosed without the finally clause
ConnClosed_Never(c, n) == n

\* lines 92-97, finally: if conn: conn.close() -- the open connections afterwards
ConnClosed(c, n) == IF c /= None THEN n - 1 ELSE n

\* how an attempt ended: df returned, or the message of the exception caught at line 76
Succeeded == [ok |-> TRUE, error_msg |-> {}]

Failed(error_msg) == [ok |-> FALSE, error_msg |-> error_msg]

\* execute_query_safe returns rows to line 403, its last attempt having ended with outcome
\* (its loop counter goes with it); lines 403-413: crm_df is bound, then either the empty-result continue or the two
\* normalized columns and the start of the row loop
QueryReturn(rows, result, outcome) ==
    /\ fetch_log' = [fetch_log EXCEPT ![Len(fetch_log)].result = result]
    /\ attempt_log' = <<outcome>>
    /\ attempt' = 0
    /\ open_conns' = ConnClosed(conn, open_conns)
    /\ conn' = None
    /\ crm_df' = NormalizeCrm(rows)
    /\ crm_for' = unique_states[state_idx]
    /\ IF rows = <<>>
       THEN EmptyResultContinue /\ UNCHANGED row_pos
       ELSE /\ row_pos' = 1
            /\ pc' = "rows"
            /\ UNCHANGED state_idx
    /\ UNCHANGED <<processing, session_matches, processed_data, uploaded, df,
                   name_threshold, address_threshold, runs, matches, unique_states,
                   state_df, crm_pos, processed_records, cancelled, scan_log,
                   cmp_log, fn_vars, download_buttons>>

\* lines 71-74: keep_session_alive, then get_conn_with_retry returns a connection (after
\* fewer than MAX_RETRIES failed connects, which leave nothing open)
QueryConnects ==
    /\ pc = "query"
    /\ conn' = <<"conn", attempt>>
    /\ open_conns' = open_conns + 1
    /\ pc' = "read_sql"
    /\ UNCHANGED <<processing, session_matches, processed_data, uploaded, df,
                   name_threshold, address_threshold, runs, matches, unique_states,
                   state_idx, state_df, attempt, crm_df, crm_for, row_pos, crm_pos,
                   processed_records, hist_vars, fn_vars, attempt_log, download_buttons>>

\* lines 74-75 and 92-97: pd.read_sql returns the rows; return df, closing conn on the way
QuerySucceeds ==
    /\ pc = "read_sql"
    /\ LET rows == CrmQuery(unique_states[state_idx]) IN
       QueryReturn(rows, IF rows = <<>> THEN "empty" ELSE "ok", Succeeded)

\* lines 76-84 and 92-99: get_conn_with_retry (pc = "query") or pd.read_sql
\* (pc = "read_sql") raises a connection issue with attempts left: continue, closing conn on
\* the way; the loop then starts the next attempt, or is exhausted and line 99 returns
QueryRetry ==
    /\ pc \in QueryPcs
    /\ \E error_msg \in ErrorMsgs :
          /\ Retriable(error_msg)
          /\ attempt < max_retries - 1
          /\ IF attempt + 1 < max_retries
             THEN /\ attempt' = attempt + 1
                  /\ attempt_log' = Append(attempt_log, Failed(error_msg))
                  /\ open_conns' = ConnClosed(conn, open_conns)
                  /\ conn' = None
                  /\ pc' = "query"
                  /\ UNCHANGED <<processing, session_matches, processed_data, uploaded, df,
                                 name_threshold, address_threshold, runs, matches,
                                 unique_states, state_idx, state_df, crm_df, crm_for,
                                 row_pos, crm_pos, processed_records, hist_vars, fn_vars,
                                 download_buttons>>
             ELSE QueryReturn(<<>>, "failed", Failed(error_msg))

\* lines 85-91 and 92-97: the last attempt fails on a connection issue, or any attempt fails
\* on another error: return pd.DataFrame(), closing conn on the way
QueryFails ==
    /\ pc \in QueryPcs
    /\ \E error_msg \in ErrorMsgs :
          /\ Retriable(error_msg) => attempt >= max_retries - 1
          /\ QueryReturn(<<>>, "failed", Failed(error_msg))

\* line 416: for row_idx, uploaded_row in state_df.iterrows() has no next row;
\* lines 580-581, then the next partition
RowsExhausted ==
    /\ pc = "rows"
    /\ row_pos > Len(state_df)
    /\ state_idx' = state_idx + 1
    /\ pc' = "partition"
    /\ UNCHANGED <<processing, session_matches, processed_data, uploaded, df,
                   name_threshold, address_threshold, runs, matches, unique_states,
                   state_df, attempt, crm_df, crm_for, row_pos, crm_pos,
                   processed_records, hist_vars, fn_vars, io_vars>>

\* variant of RowLoopCancelled that never sees the flag
RowLoopNeverCancelled == FALSE

\* lines 417-418: if not st.session_state.processing: break
RowLoopCancelled == ~processing

\* the break leaves the row loop only: lines 580-581, then the next partition's check
RowBreak ==
    /\ pc = "rows"
    /\ row_pos <= Len(state_df)
    /\ RowLoopCancelled
    /\ state_idx' = state_idx + 1
    /\ pc' = "partition"
    /\ UNCHANGED <<processing, session_matches, processed_data, uploaded, df,
                   name_threshold, address_threshold, runs, matches, unique_states,
                   state_df, attempt, crm_df, crm_for, row_pos, crm_pos,
                   processed_records, hist_vars, fn_vars, io_vars>>

\* lines 420-425: the scan of one uploaded row starts
RowBegin ==
    /\ pc = "rows"
    /\ row_pos <= Len(state_df)
    /\ ~RowLoopCancelled
    /\ crm_pos' = 1
    /\ scan_log' = Append(scan_log, state_df[row_pos])
    /\ pc' = "compare"
    /\ UNCHANGED <<processing, session_matches, processed_data, uploaded, df,
                   name_threshold, address_threshold, runs, matches, unique_states,
                   state_idx, state_df, attempt, crm_df, crm_for, row_pos,
                   processed_records, cancelled, fetch_log, cmp_log, fn_vars, io_vars>>

\* lines 428-566: one iteration of for _, crm_row in crm_df.iterrows()
Compare ==
    /\ pc = "compare"
    /\ LET uploaded_row == df[state_df[row_pos]]
           crm_row == crm_df[crm_pos]
           name_sim == NameSim(uploaded_row, crm_row)
           address_sim == AddressSim(uploaded_row, crm_row)
       IN /\ matches' =
                IF Qualifies(name_sim, address_sim, name_threshold, address_threshold)
                THEN Append(matches, Match(uploaded_row, crm_row, name_sim, address_sim))
                ELSE matches
          /\ cmp_log' = Append(cmp_log,
                [row |-> state_df[row_pos], systemId |-> crm_row.systemId,
                 fetched_for |-> crm_for, name_sim |-> name_sim,
                 address_sim |-> address_sim])
    /\ IF crm_pos < Len(crm_df)
       THEN crm_pos' = crm_pos + 1 /\ pc' = "compare"
       ELSE crm_pos' = crm_pos /\ pc' = "progress"
    /\ UNCHANGED <<processing, session_matches, processed_data, uploaded, df,
                   name_threshold, address_threshold, runs, unique_states, state_idx,
                   state_df, attempt, crm_df, crm_for, row_pos, processed_records,
                   cancelled, scan_log, fetch_log, fn_vars, io_vars>>

\* lines 568-576: processed_records += 1 and the progress bar text
ProgressUpdate ==
    /\ pc = "progress"
    /\ Subscriptable(df[state_df[row_pos]].companyName)
    /\ processed_records' = processed_records + 1
    /\ row_pos' = row_pos + 1
    /\ pc' = "rows"
    /\ UNCHANGED <<processing, session_matches, processed_data, uploaded, df,
                   name_threshold, address_threshold, runs, matches, unique_states,
                   state_idx, state_df, attempt, crm_df, crm_for, crm_pos,
                   hist_vars, fn_vars, io_vars>>

\* line 571 raises TypeError after line 569; lines 583-585: except Exception: continue
ProgressRaises ==
    /\ pc = "progress"
    /\ ~Subscriptable(df[state_df[row_pos]].companyName)
    /\ processed_records' = processed_records + 1
    /\ state_idx' = state_idx + 1
    /\ pc' = "partition"
    /\ UNCHANGED <<processing, session_matches, processed_data, uploaded, df,
                   name_threshold, address_threshold, runs, matches, unique_states,
                   state_df, attempt, crm_df, crm_for, row_pos, crm_pos,
                   hist_vars, fn_vars, io_vars>>

\* the script run ends and its loop variables with it; matches and unique_states keep the
\* run's last values until the next Start Processing, for reference
LocalsDropped ==
    /\ state_idx' = 1
    /\ state_df' = <<>>
    /\ attempt' = 0
    /\ crm_df' = <<>>
    /\ crm_for' = None
    /\ row_pos' = 1
    /\ crm_pos' = 1
    /\ processed_records' = 0
    /\ conn' = None
    /\ attempt_log' = <<>>

\* lines 598-788, the results block of a script run whose stored matches are stored_matches:
\* skipped when they are empty, else the three download entries are rebuilt and served
ShowResults(stored_matches, selected_fields) ==
    download_buttons' = IF stored_matches = <<>> THEN NoDownloads
                        ELSE DownloadData(ExportDf(stored_matches, selected_fields))

\* variant of ProcessingAfterCompletion that leaves the flag set
ProcessingAfterCompletion_Kept == TRUE

\* line 592: st.session_state.processing = False
ProcessingAfterCompletion == FALSE

\* lines 587-595: if st.session_state.processing: store the matches, clear the flag, rerun
CompleteRun ==
    /\ pc = "complete"
    /\ processing
    /\ session_matches' = matches
    /\ processing' = ProcessingAfterCompletion
    /\ pc' = "ready"
    /\ LocalsDropped
    /\ ShowResults(matches, default_fields)
    /\ UNCHANGED <<processed_data, uploaded, df, name_threshold, address_threshold,
                   runs, matches, unique_states, hist_vars, fn_vars, open_conns>>

\* line 664: the user changes the field selection; the script reruns and the results
\* block is rendered with the new selection
SelectFields ==
    /\ pc = "ready"
    /\ ~processing
    /\ session_matches /= <<>>
    /\ \E selected_fields \in FieldSelections : ShowResults(session_matches, selected_fields)
    /\ UNCHANGED <<processing, session_matches, processed_data, pc, uploaded, df,
                   name_threshold, address_threshold, runs, run_vars, hist_vars, fn_vars,
                   conn, open_conns, attempt_log>>

\* line 587 with the flag cleared: the block is skipped and the script run ends
FinishCancelled ==
    /\ pc = "complete"
    /\ ~processing
    /\ pc' = "ready"
    /\ LocalsDropped
    /\ UNCHANGED <<processing, session_matches, processed_data, uploaded, df,
                   name_threshold, address_threshold, runs, matches, unique_states,
                   hist_vars, fn_vars, open_conns, download_buttons>>

\* lines 809-812: Cancel Processing clears the flag while the loop is running
CancelProcessing ==
    /\ pc \in RunPcs
    /\ processing
    /\ processing' = FALSE
    /\ cancelled' = TRUE
    /\ UNCHANGED <<session_matches, processed_data, pc, uploaded, df, name_threshold,
                   address_threshold, runs, run_vars, scan_log, fetch_log, cmp_log,
                   fn_vars, io_vars>>

\* lines 815-818: Reset App deletes every key of st.session_state and reruns the script,
\* whose lines 169-175 set the defaults again. The button is the last element of the page,
\* so a script run that reached st.stop() does not offer it. A script run in the loop is
\* abandoned, the finally block of execute_query_safe closing its connection. The sliders
\* have no key and keep their values; whether the file uploader still holds its file once
\* its key is deleted is left open.
ResetApp ==
    /\ pc \in {"idle", "ready"} \cup RunPcs
    /\ processing' = FALSE
    /\ session_matches' = <<>>
    /\ processed_data' = None
    /\ df' = <<>>
    /\ \E keeps_file \in BOOLEAN :
          /\ uploaded' = IF keeps_file THEN uploaded ELSE NoFile
          /\ pc' = IF uploaded' = NoFile THEN "idle" ELSE "loaded"
    /\ matches' = <<>>
    /\ unique_states' = <<>>
    /\ LocalsDropped
    /\ open_conns' = ConnClosed(conn, open_conns)
    /\ download_buttons' = NoDownloads
    /\ cancelled' = FALSE
    /\ scan_log' = <<>>
    /\ fetch_log' = <<>>
    /\ cmp_log' = <<>>
    /\ runs' = 0
    /\ UNCHANGED <<name_threshold, address_threshold, fn_vars>>

Next ==
    \/ Upload
    \/ ValidateStop
    \/ PreprocessData
    \/ StartProcessing
    \/ PartitionsExhausted
    \/ PartitionBreak
    \/ PartitionBegin
    \/ QueryConnects
    \/ QuerySucceeds
    \/ QueryRetry
    \/ QueryFails
    \/ RowsExhausted
    \/ RowBreak
    \/ RowBegin
    \/ Compare
    \/ ProgressUpdate
    \/ ProgressRaises
    \/ CompleteRun
    \/ SelectFields
    \/ FinishCancelled
    \/ CancelProcessing
    \/ ResetApp

Spec == Init /\ [][Next]_vars

\* where the script is in the Start Processing handler (lines 286-595): its statement and
\* its loop counters
position == <<pc, state_idx, attempt, row_pos, crm_pos>>

\* a step of the script run that executes the handler: the script moves on to its next
\* statement or leaves the handler (a click on Cancel Processing moves nothing, one on
\* Reset App abandons the script run)
ScriptStep ==
    /\ pc \in RunPcs
    /\ position' /= position
    /\ pc' \in RunPcs \cup {"ready"}

\* the script thread keeps running while it is in the handler: every statement, a connect
\* or a query among them, comes to an end, so the script does not stay in the handler for
\* ever without taking a step; the user's clicks are under no such obligation. (A step of
\* the script is possible exactly while pc is in RunPcs, so this is weak fairness of
\* ScriptStep.)
ScriptKeepsRunning == []<>(pc \notin RunPcs) \/ []<><<ScriptStep>>_position

LiveSpec == Spec /\ ScriptKeepsRunning

(***************************************************************************)
(* The pure functions on their own: each specification draws an input      *)
(* and applies the function, then applies it again                        *)
(***************************************************************************)

MaxNormLen == 4
MaxSimLen == 3

NormAlphabet == {"W", "a", "Y", ".", " ", "_"}

\* an address with outer and repeated spaces and a word the rules abbreviate
ExampleAddress ==
    <<" ", " ", "1", "2", "3", " ", " ", " ", "M", "a", "i", "n", " ", " ", " ", "S", "t", "r", "e", "e", "t", " ", " ">>

NormInputs == SeqsUpTo(NormAlphabet, MaxNormLen) \cup {None, NaN, ExampleAddress}

SimAlphabet == {"a", "A", "b", "c"}

SimInputs == SeqsUpTo(SimAlphabet, MaxSimLen) \cup {None, NaN}

\* the argument of the next application: the drawn input, then the previous output
FnArg == IF fn_out = <<>> THEN fn_in ELSE fn_out[Len(fn_out)]

InitNorm == SessionInit /\ pc = "fn" /\ fn_name = "" /\ fn_in \in NormInputs /\ fn_out = <<>>

CallNormalizeText ==
    /\ pc = "fn"
    /\ fn_name \in {"", "normalize_text"}
    /\ Len(fn_out) < 2
    /\ fn_name' = "normalize_text"
    /\ fn_out' = Append(fn_out, normalize_text(FnArg))
    /\ UNCHANGED <<processing, session_matches, processed_data, pc, uploaded, df,
                   name_threshold, address_threshold, runs, run_vars, hist_vars, fn_in,
                   io_vars>>

CallNormalizeAddress ==
    /\ pc = "fn"
    /\ fn_name \in {"", "normalize_address"}
    /\ Len(fn_out) < 2
    /\ fn_name' = "normalize_address"
    /\ fn_out' = Append(fn_out, normalize_address(FnArg))
    /\ UNCHANGED <<processing, session_matches, processed_data, pc, uploaded, df,
                   name_threshold, address_threshold, runs, run_vars, hist_vars, fn_in,
                   io_vars>>

NextNorm == CallNormalizeText \/ CallNormalizeAddress

SpecNorm == InitNorm /\ [][NextNorm]_vars

InitSim ==
    /\ SessionInit
    /\ pc = "fn"
    /\ fn_name = ""
    /\ fn_in \in SimInputs \X SimInputs
    /\ fn_out = <<>>

\* simple_similarity(a, b) on the drawn pair
CallSimilarity ==
    /\ pc = "fn"
    /\ fn_out = <<>>
    /\ fn_name' = "simple_similarity"
    /\ fn_out' = <<simple_similarity_outcome(fn_in[1], fn_in[2])>>
    /\ UNCHANGED <<processing, session_matches, processed_data, pc, uploaded, df,
                   name_threshold, address_threshold, runs, run_vars, hist_vars, fn_in,
                   io_vars>>

\* simple_similarity(b, a) on the same pair
CallSimilaritySwapped ==
    /\ pc = "fn"
    /\ fn_name = "simple_similarity"
    /\ Len(fn_out) = 1
    /\ fn_out' = Append(fn_out, simple_similarity_outcome(fn_in[2], fn_in[1]))
    /\ UNCHANGED <<processing, session_matches, processed_data, pc, uploaded, df,
                   name_threshold, address_threshold, runs, run_vars, hist_vars,
                   fn_name, fn_in, io_vars>>

NextSim == CallSimilarity \/ CallSimilaritySwapped

SpecSim == InitSim /\ [][NextSim]_vars

StateAlphabet == {"c", "A", " "}

\* state cells: short strings, every full name of the table in upper and in lower case,
\* the names of the examples, an unknown name, and the missing values
StateInputs ==
    SeqsUpTo(StateAlphabet, MaxNormLen)
        \cup {STATE_MAPPING[i][1] : i \in DOMAIN STATE_MAPPING}
        \cup {Lower(STATE_MAPPING[i][1]) : i \in DOMAIN STATE_MAPPING}
        \cup {<<"C", "a", "l", "i", "f", "o", "r", "n", "i", "a">>,
              <<" ", "N", "e", "w", " ", "Y", "o", "r", "k", " ">>,
              <<"N", "e", "v", "e", "r", "l", "a", "n", "d">>,
              None, NaN}

InitState == SessionInit /\ pc = "fn" /\ fn_name = "" /\ fn_in \in StateInputs /\ fn_out = <<>>

\* convert_state_to_abbrev on the drawn cell, then on its own result
CallConvertState ==
    /\ pc = "fn"
    /\ Len(fn_out) < 2
    /\ fn_name' = "convert_state_to_abbrev"
    /\ fn_out' = Append(fn_out, convert_state_to_abbrev(FnArg))
    /\ UNCHANGED <<processing, session_matches, processed_data, pc, uploaded, df,
                   name_threshold, address_threshold, runs, run_vars, hist_vars, fn_in,
                   io_vars>>

NextState == CallConvertState

SpecState == InitState /\ [][NextState]_vars

(***************************************************************************)
(* Properties                                                              *)
(***************************************************************************)

\* whether sequence s is a prefix of sequence u
IsPrefix(s, u) == Len(s) <= Len(u) /\ \A i \in DOMAIN s : u[i] = s[i]

\* a run has ended and the script is back at the Start Processing button
RunEnded == pc = "ready" /\ runs > 0

\* the compared pairs of this run that meet both slider values, in comparison order
QualifiedLog ==
    SelectSeq(cmp_log, LAMBDA e :
        /\ e.name_sim.num * 100 >= name_threshold * e.name_sim.den
        /\ e.address_sim.num * 100 >= address_threshold * e.address_sim.den)

\* C1: a compared pair is appended to matches if and only if name_sim >= the name
\* threshold and address_sim >= the address threshold (equality qualifies), and every
\* qualifying pair is kept: matches is exactly the qualifying compared pairs, in order.
C1_ThresholdIff ==
    /\ Len(matches) = Len(QualifiedLog)
    /\ \A i \in DOMAIN matches :
          /\ matches[i].CRM_SYSTEM_ID = QualifiedLog[i].systemId
          /\ matches[i].UPLOADED_COMPANY_NAME = df[QualifiedLog[i].row].companyName
          /\ matches[i].UPLOADED_ADDRESS = df[QualifiedLog[i].row].companyAddress
          /\ matches[i].UPLOADED_STATE = df[QualifiedLog[i].row].companyState
          /\ matches[i].NAME_SIMILARITY = QualifiedLog[i].name_sim
          /\ matches[i].ADDRESS_SIMILARITY = QualifiedLog[i].address_sim

\* a run in which one uploaded row has two candidates, one of them with a name score
\* exactly equal to the threshold, and in which a compared pair was rejected
C1_Witness ==
    /\ Len(cmp_log) > Len(matches)
    /\ \E i, j \in DOMAIN matches :
          /\ i < j
          /\ QualifiedLog[i].row = QualifiedLog[j].row
          /\ matches[j].NAME_SIMILARITY.num * 100 = name_threshold * matches[j].NAME_SIMILARITY.den
          /\ matches[j].ADDRESS_SIMILARITY.num * 100 = address_threshold * matches[j].ADDRESS_SIMILARITY.den

\* the systemIds the query for a state code returns
FetchedIds(state_abbrev) ==
    {CrmQuery(state_abbrev)[k].systemId : k \in DOMAIN CrmQuery(state_abbrev)}

\* C2: partition isolation: every comparison pairs an uploaded row with a reference row
\* returned by the fetch issued for that row's own state_abbrev, and so does every candidate.
C2_PartitionIsolation ==
    /\ \A k \in DOMAIN cmp_log :
          /\ df[cmp_log[k].row].state_abbrev = cmp_log[k].fetched_for
          /\ cmp_log[k].systemId \in FetchedIds(cmp_log[k].fetched_for)
    /\ \A i \in DOMAIN matches :
          matches[i].CRM_SYSTEM_ID \in FetchedIds(matches[i].UPLOADED_STATE_ABBREV)
    /\ \A i \in DOMAIN session_matches :
          session_matches[i].CRM_SYSTEM_ID \in FetchedIds(session_matches[i].UPLOADED_STATE_ABBREV)

\* a run that compared rows of two different partitions
C2_Witness ==
    \E k, l \in DOMAIN cmp_log :
        /\ cmp_log[k].fetched_for /= cmp_log[l].fetched_for
        /\ cmp_log[k].row /= cmp_log[l].row

\* the rows of a partition an uncancelled run scans: all of them, or those up to the
\* first whose companyName makes line 571 raise
ScannedRows(idxs) ==
    LET raising == {k \in DOMAIN idxs : ~Subscriptable(df[idxs[k]].companyName)} IN
    IF raising = {} THEN idxs
    ELSE SubSeq(idxs, 1, CHOOSE k \in raising : \A l \in raising : k <= l)

\* the candidates of one uploaded row against the fetched rows from position k on
RECURSIVE CandidatesOfRow(_, _, _)
CandidatesOfRow(u, crm, k) ==
    IF k > Len(crm) THEN <<>>
    ELSE LET n == NameSim(df[u], crm[k])
             a == AddressSim(df[u], crm[k])
         IN (IF Qualifies(n, a, name_threshold, address_threshold)
             THEN <<Match(df[u], crm[k], n, a)>>
             ELSE <<>>) \o CandidatesOfRow(u, crm, k + 1)

\* the candidates of the rows idxs from position k on
RECURSIVE CandidatesOfRows(_, _, _)
CandidatesOfRows(idxs, crm, k) ==
    IF k > Len(idxs) THEN <<>>
    ELSE CandidatesOfRow(idxs[k], crm, 1) \o CandidatesOfRows(idxs, crm, k + 1)

\* the candidates of the partitions whose fetch returned rows, from fetch k on
RECURSIVE CandidatesOfFetches(_)
CandidatesOfFetches(k) ==
    IF k > Len(fetch_log) THEN <<>>
    ELSE (IF fetch_log[k].result = "ok"
          THEN CandidatesOfRows(ScannedRows(StateDf(df, fetch_log[k].state)),
                                NormalizeCrm(CrmQuery(fetch_log[k].state)), 1)
          ELSE <<>>) \o CandidatesOfFetches(k + 1)

\* C3: partial-failure isolation: a partition whose fetch failed or returned no rows is
\* never compared and contributes no candidate; the run goes on: an uncancelled run has
\* fetched every partition once, in order, and its result, the stored matches, is exactly
\* the candidates of the partitions whose fetch returned rows.
C3_PartialFailureIsolation ==
    /\ \A k \in DOMAIN fetch_log :
          fetch_log[k].result \in {"failed", "empty"} =>
             /\ \A i \in DOMAIN matches :
                   matches[i].UPLOADED_STATE_ABBREV /= fetch_log[k].state
             /\ \A l \in DOMAIN cmp_log : cmp_log[l].fetched_for /= fetch_log[k].state
    /\ (RunEnded /\ ~cancelled) =>
          /\ [k \in DOMAIN fetch_log |-> fetch_log[k].state] = unique_states
          /\ \A k \in DOMAIN fetch_log : fetch_log[k].result /= "pending"
          /\ matches = CandidatesOfFetches(1)
          /\ session_matches = matches
          /\ ~processing

\* an uncancelled run has ended whose first fetch failed and whose second fetch returned
\* rows that produced candidates
C3_Witness ==
    /\ RunEnded
    /\ ~cancelled
    /\ Len(fetch_log) = 2
    /\ fetch_log[1].result = "failed"
    /\ fetch_log[2].result = "ok"
    /\ session_matches /= <<>>

\* C4: after a cancelled run the stored matches are the candidates accumulated before the
\* cancellation.
C4_CancelReturnsAccumulated ==
    (RunEnded /\ cancelled) => session_matches = matches

\* one step of a run after the flag was cleared (a step of the script, not Reset App, which
\* abandons the run): no fetch is issued, no scan starts, and the candidates accumulated so
\* far stay as they are
AfterCancelStep ==
    (pc \in RunPcs /\ ~processing /\ pc' \in RunPcs \cup {"ready"}) =>
        /\ Len(fetch_log') = Len(fetch_log)
        /\ scan_log' = scan_log
        /\ IsPrefix(matches, matches')

\* C5: once the cancellation flag is set, no further reference fetch is issued and no
\* further uploaded row starts being scanned (the scan in progress may finish), and the
\* candidates accumulated before are neither removed nor altered.
C5_CancelStopsWork == [][AfterCancelStep]_vars

\* a cancelled run has ended with candidates accumulated and a partition never fetched
C5_Witness ==
    /\ RunEnded
    /\ cancelled
    /\ matches /= <<>>
    /\ Len(fetch_log) < Len(unique_states)

\* C6: a file that lacks one of the six required columns stops the script before anything
\* else happens: no derived column, no fetch, no scan, no comparison, no candidate.
C6_MissingColumnStops ==
    (uploaded /= NoFile /\ ~(required \subseteq uploaded.columns)) =>
        /\ pc \in {"loaded", "stopped"}
        /\ df = <<>>
        /\ processed_data = None
        /\ ~processing
        /\ runs = 0
        /\ fetch_log = <<>>
        /\ scan_log = <<>>
        /\ cmp_log = <<>>
        /\ matches = <<>>
        /\ session_matches = <<>>

\* the script has stopped on a file without companyAddress2
C6_Witness ==
    /\ pc = "stopped"
    /\ "companyAddress2" \notin uploaded.columns
    /\ Len(uploaded.rows) = 2

\* the reference row with a systemId
CrmRow(id) == CrmView[CHOOSE k \in DOMAIN CrmView : CrmView[k].systemId = id]

\* the scorer's output on the normalized names and on the normalized addresses of a pair
ScoresOfNormalized(up_name, up_address, crm_name, crm_address) ==
    [name_sim |-> simple_similarity(normalize_text(up_name), normalize_text(crm_name)),
     address_sim |->
        simple_similarity(normalize_address(up_address), normalize_address(crm_address))]

CandidateNormalized(m) ==
    LET s == ScoresOfNormalized(m.UPLOADED_COMPANY_NAME, m.UPLOADED_ADDRESS,
                                m.CRM_COMPANY_NAME, m.CRM_COMPANY_ADDRESS)
    IN m.NAME_SIMILARITY = s.name_sim /\ m.ADDRESS_SIMILARITY = s.address_sim

\* the newest comparison, and the candidate it appended if it appended one
NewestComparisonNormalized ==
    LET e == cmp_log[Len(cmp_log)]
        crm_row == CrmRow(e.systemId)
        s == ScoresOfNormalized(df[e.row].companyName, df[e.row].companyAddress,
                                crm_row.companyName, crm_row.companyAddress)
    IN /\ e.name_sim = s.name_sim
       /\ e.address_sim = s.address_sim
       /\ Len(matches) = Len(QualifiedLog)
       /\ (QualifiedLog /= <<>> /\ QualifiedLog[Len(QualifiedLog)] = e) =>
             /\ matches[Len(matches)].NAME_SIMILARITY = s.name_sim
             /\ matches[Len(matches)].ADDRESS_SIMILARITY = s.address_sim
             /\ matches[Len(matches)].UPLOADED_COMPANY_NAME = df[e.row].companyName
             /\ matches[Len(matches)].UPLOADED_ADDRESS = df[e.row].companyAddress
             /\ matches[Len(matches)].CRM_COMPANY_NAME = crm_row.companyName
             /\ matches[Len(matches)].CRM_COMPANY_ADDRESS = crm_row.companyAddress

\* C7: every candidate's NAME_SIMILARITY is simple_similarity of the normalize_text of the
\* two names and its ADDRESS_SIMILARITY is simple_similarity of the normalize_address of
\* the two addresses, and no comparison uses a raw field: this holds of each comparison
\* (and of the candidate it appends) right after it is made, and of every candidate when
\* the run has ended; and when the row loop of a partition starts, after the fetch and
\* before its first comparison, the fetched rows carry their normalized columns.
C7_ScoresFromNormalized ==
    /\ (pc \in {"compare", "progress"} /\ cmp_log /= <<>>) => NewestComparisonNormalized
    /\ (pc = "rows" /\ row_pos = 1) =>
          \A k \in DOMAIN crm_df :
             /\ crm_df[k].normalized_company_name = normalize_text(crm_df[k].companyName)
             /\ crm_df[k].normalized_address = normalize_address(crm_df[k].companyAddress)
    /\ RunEnded =>
          /\ \A i \in DOMAIN matches : CandidateNormalized(matches[i])
          /\ session_matches \in {<<>>, matches}

\* a stored candidate whose uploaded name and address and whose reference address all
\* differ from their normalized forms
C7_Witness ==
    \E i \in DOMAIN session_matches :
        LET m == session_matches[i] IN
        /\ normalize_text(m.UPLOADED_COMPANY_NAME) /= m.UPLOADED_COMPANY_NAME
        /\ normalize_address(m.UPLOADED_ADDRESS) /= m.UPLOADED_ADDRESS
        /\ normalize_address(m.CRM_COMPANY_ADDRESS) /= m.CRM_COMPANY_ADDRESS

\* twice the combined score is the sum of the two scores of the same candidate
CombinedIsMean(m) ==
    2 * m.COMBINED_SCORE.num * m.NAME_SIMILARITY.den * m.ADDRESS_SIMILARITY.den
        = m.COMBINED_SCORE.den
            * (m.NAME_SIMILARITY.num * m.ADDRESS_SIMILARITY.den
               + m.ADDRESS_SIMILARITY.num * m.NAME_SIMILARITY.den)

AllCombinedAreMeans ==
    /\ \A i \in DOMAIN matches : CombinedIsMean(matches[i])
    /\ \A i \in DOMAIN session_matches : CombinedIsMean(session_matches[i])

\* no step changes a candidate that stays in the list, or a stored candidate
CandidatesUnchanged ==
    /\ \A i \in DOMAIN matches \cap DOMAIN matches' : matches'[i] = matches[i]
    /\ \A i \in DOMAIN session_matches \cap DOMAIN session_matches' :
          session_matches'[i] = session_matches[i] \/ session_matches' = matches

\* C8: every candidate's COMBINED_SCORE is the arithmetic mean of the NAME_SIMILARITY and
\* ADDRESS_SIMILARITY stored in the same candidate, and no step changes a candidate.
C8_CombinedScoreIsMean == []AllCombinedAreMeans /\ [][CandidatesUnchanged]_vars

\* a stored candidate whose two scores differ, so that the mean is neither of them
C8_Witness ==
    \E i \in DOMAIN session_matches :
        LET m == session_matches[i] IN
        /\ m.NAME_SIMILARITY.num * m.ADDRESS_SIMILARITY.den
              /= m.ADDRESS_SIMILARITY.num * m.NAME_SIMILARITY.den
        /\ m.COMBINED_SCORE.num * 8 = m.COMBINED_SCORE.den * 5

\* C9: normalization is idempotent: applying normalize_text (normalize_address) to its own
\* output gives that output again.
C9_NormalizeIdempotent ==
    (pc = "fn" /\ Len(fn_out) = 2) => fn_out[2] = fn_out[1]

\* C10: similarity is symmetric: simple_similarity(a, b) = simple_similarity(b, a).
C10_SimilaritySymmetric ==
    (pc = "fn" /\ fn_name = "simple_similarity" /\ Len(fn_out) = 2
        /\ Returned(fn_out[1]) /\ Returned(fn_out[2])) =>
        fn_out[1].num * fn_out[2].den = fn_out[2].num * fn_out[1].den

\* a and b are strings of the same length that differ at most in the case of their letters
SameUpToCase(a, b) ==
    /\ a \notin {None, NaN} /\ b \notin {None, NaN}
    /\ Len(a) = Len(b)
    /\ \A i \in DOMAIN a :
          \/ a[i] = b[i]
          \/ a[i] \in LowerSet /\ ToUpper[a[i]] = b[i]
          \/ b[i] \in LowerSet /\ ToUpper[b[i]] = a[i]

\* C11: similarity is reflexive and case-insensitive: two non-empty strings that are equal,
\* or differ only in letter case, score 1.0 (in either argument order).
C11_ReflexiveCaseInsensitive ==
    (pc = "fn" /\ fn_name = "simple_similarity"
        /\ fn_in[1] /= <<>> /\ SameUpToCase(fn_in[1], fn_in[2])) =>
        \A k \in DOMAIN fn_out : fn_out[k].num = fn_out[k].den

\* two different strings of two or more characters that differ only in case were scored
C11_Witness ==
    /\ pc = "fn" /\ fn_name = "simple_similarity" /\ Len(fn_out) = 2
    /\ SameUpToCase(fn_in[1], fn_in[2])
    /\ fn_in[1] /= fn_in[2]
    /\ Len(fn_in[1]) >= 2

C13_MissingToEmpty ==
    (pc = "fn" /\ fn_name \in {"normalize_text", "normalize_address"} /\ fn_out /= <<>>) =>
        /\ fn_in \in {None, NaN, <<>>} => fn_out[1] = <<>>
        /\ (fn_in = ExampleAddress /\ fn_name = "normalize_address") =>
               fn_out[1] = <<"1", "2", "3", " ", "M", "A", "I", "N", " ", "S", "T">>

\* only uppercase letters, digits and single spaces, with no space at either end
NormalForm(s) ==
    /\ \A i \in DOMAIN s : s[i] \in UpperSet \cup Digits \cup {" "}
    /\ s /= <<>> => (s[1] /= " " /\ s[Len(s)] /= " ")
    /\ \A i \in 1..(Len(s) - 1) : ~(s[i] = " " /\ s[i + 1] = " ")

\* C14: every output of normalize_text and of normalize_address is in normal form: only
\* uppercase letters, digits and single spaces, no leading or trailing space, no run of
\* two or more whitespace characters.
C14_OutputInNormalForm ==
    (pc = "fn" /\ fn_name \in {"normalize_text", "normalize_address"}) =>
        \A k \in DOMAIN fn_out : NormalForm(fn_out[k])

\* C15: convert_state_to_abbrev returns a missing input (None, NaN, "") unchanged; otherwise,
\* on the trimmed uppercased text, the text itself when its length is 2, the code when it
\* is a full name of the table, and the text passed through when unrecognized, so that
\* "California" -> "CA", "cA" -> "CA", "Neverland" -> "NEVERLAND"; and applying it twice
\* gives the same result as applying it once.
C15_StateToAbbrev ==
    (pc = "fn" /\ fn_name = "convert_state_to_abbrev") =>
        /\ (fn_out /= <<>> /\ fn_in \in {None, NaN, <<>>}) => fn_out[1] = fn_in
        /\ (fn_out /= <<>> /\ fn_in \notin {None, NaN, <<>>}) =>
              LET text == Strip(Upper(fn_in)) IN
              /\ Len(text) = 2 => fn_out[1] = text
              /\ \A i \in DOMAIN STATE_MAPPING :
                    text = STATE_MAPPING[i][1] => fn_out[1] = STATE_MAPPING[i][2]
              /\ (Len(text) /= 2 /\ \A i \in DOMAIN STATE_MAPPING : text /= STATE_MAPPING[i][1])
                    => fn_out[1] = text
        /\ (fn_out /= <<>> /\ fn_in = <<"C", "a", "l", "i", "f", "o", "r", "n", "i", "a">>) => fn_out[1] = <<"C", "A">>
        /\ (fn_out /= <<>> /\ fn_in = <<"c", "A">>) => fn_out[1] = <<"C", "A">>
        /\ (fn_out /= <<>> /\ fn_in = <<"N", "e", "v", "e", "r", "l", "a", "n", "d">>) => fn_out[1] = <<"N", "E", "V", "E", "R", "L", "A", "N", "D">>
        /\ Len(fn_out) = 2 => fn_out[2] = fn_out[1]

\* the rows a download entry lists: none for None
RowsOf(entry) == IF entry = None THEN <<>> ELSE entry[2]

\* the k-th smallest element of a set of indexes
KthIndex(idx, k) == CHOOSE i \in idx : Cardinality({j \in idx : j <= i}) = k

\* view lists exactly the rows of all_rows whose combined score is at least cutoff
\* (hundredths), in the order of all_rows
IsTierView(view, all_rows, cutoff) ==
    LET idx == {i \in DOMAIN all_rows :
                    all_rows[i].COMBINED_SCORE.num * 100 >= cutoff * all_rows[i].COMBINED_SCORE.den}
    IN /\ Len(view) = Cardinality(idx)
       /\ \A k \in DOMAIN view : view[k] = all_rows[KthIndex(idx, k)]

\* whenever results are shown, "all" lists every stored candidate (its exported columns,
\* the three scores among them) and "high" and "medium" are its 0.9 and 0.8 tiers
TiersAreFilters ==
    (pc = "ready" /\ ~processing /\ session_matches /= <<>>) =>
        LET all_rows == RowsOf(download_buttons.all) IN
        /\ Len(all_rows) = Len(session_matches)
        /\ \A i \in DOMAIN all_rows :
              /\ similarity_fields \subseteq DOMAIN all_rows[i]
              /\ \A field \in DOMAIN all_rows[i] : all_rows[i][field] = session_matches[i][field]
        /\ IsTierView(RowsOf(download_buttons.high), all_rows, 90)
        /\ IsTierView(RowsOf(download_buttons.medium), all_rows, 80)

\* a step that builds the views leaves the candidates of the run as they were
ViewsModifyNothing ==
    (download_buttons' /= download_buttons /\ download_buttons' /= NoDownloads)
        => (matches' = matches /\ session_matches' = matches)

\* C16: the confidence tiers are pure filters over the same candidates: "high" holds exactly
\* those with combined score >= 0.9, "medium" exactly those with >= 0.8, "all" every
\* candidate, each in the original order, and building them modifies no candidate.
C16_TiersAreFilters == []TiersAreFilters /\ [][ViewsModifyNothing]_vars

\* results are shown with a candidate in each tier: one only in "all", one in "medium" but
\* not in "high", and one in "high"
C16_Witness ==
    /\ pc = "ready" /\ ~processing
    /\ download_buttons.high /= None
    /\ Len(RowsOf(download_buttons.high)) < Len(RowsOf(download_buttons.medium))
    /\ Len(RowsOf(download_buttons.medium)) < Len(RowsOf(download_buttons.all))
    /\ "CRM_COMPANY_NAME" \notin DOMAIN RowsOf(download_buttons.all)[1]

\* candidate m carries the six input fields of uploaded row r: the five the candidate
\* names, and companyAddress2 under some key that is not one of those, a score or a
\* reference attribute
CarriesUploadedRecord(m, r) ==
    /\ m.UPLOADED_COMPANY_NAME = r.companyName
    /\ m.UPLOADED_ADDRESS = r.companyAddress
    /\ m.UPLOADED_CITY = r.companyCity
    /\ m.UPLOADED_STATE = r.companyState
    /\ m.UPLOADED_ZIP = r.companyZipCode
    /\ \E key \in DOMAIN m \ (similarity_fields \cup
                {"UPLOADED_COMPANY_NAME", "UPLOADED_ADDRESS", "UPLOADED_CITY", "UPLOADED_STATE",
                 "UPLOADED_ZIP", "CRM_SYSTEM_ID", "CRM_COMPANY_NAME", "CRM_COMPANY_ADDRESS",
                 "CRM_COMPANY_STATE"}) :
          m[key] = r.companyAddress2

\* candidate m carries every attribute of reference record c as the view returned it
CarriesReferenceRecord(m, c) ==
    /\ m.CRM_SYSTEM_ID = c.systemId
    /\ m.CRM_COMPANY_NAME = c.companyName
    /\ m.CRM_COMPANY_ADDRESS = c.companyAddress
    /\ m.CRM_COMPANY_STATE = c.companyState

\* C17: every candidate carries the full uploaded record (all six input fields), every
\* attribute of the reference record as fetched, and the three scores.
C17_CandidateCarriesRecords ==
    \A j \in DOMAIN matches :
        /\ similarity_fields \subseteq DOMAIN matches[j]
        /\ \E k \in DOMAIN CrmView : CarriesReferenceRecord(matches[j], CrmView[k])
        /\ \E i \in DOMAIN uploaded.rows : CarriesUploadedRecord(matches[j], uploaded.rows[i])

\* the pairs <<uploaded row index, systemId>> of the uploaded table and the reference
\* records of the row's own state code whose two scores meet the slider values
QualifyingPairs ==
    {p \in (DOMAIN df) \X {CrmView[k].systemId : k \in DOMAIN CrmView} :
        \E k \in DOMAIN CrmView :
            /\ CrmView[k].systemId = p[2]
            /\ CrmView[k].companyState = df[p[1]].state_abbrev
            /\ RatioGE(simple_similarity(normalize_text(df[p[1]].companyName),
                                         normalize_text(CrmView[k].companyName)),
                       name_threshold)
            /\ RatioGE(simple_similarity(normalize_address(df[p[1]].companyAddress),
                                         normalize_address(CrmView[k].companyAddress)),
                       address_threshold)}

\* C18: in a run that is not cancelled and whose fetches all succeed, the state code of
\* every uploaded row is fetched exactly once, every row is compared exactly once with
\* every reference record of its state code, and the stored result holds every
\* qualifying pair exactly once.
C18_CompleteCoverage ==
    (RunEnded /\ ~cancelled
        /\ \A f \in DOMAIN fetch_log : fetch_log[f].result \in {"ok", "empty"}) =>
        /\ \A i \in DOMAIN df :
              Cardinality({f \in DOMAIN fetch_log : fetch_log[f].state = df[i].state_abbrev}) = 1
        /\ \A i \in DOMAIN df : \A id \in FetchedIds(df[i].state_abbrev) :
              Cardinality({k \in DOMAIN cmp_log :
                              cmp_log[k].row = i /\ cmp_log[k].systemId = id}) = 1
        /\ Len(session_matches) = Cardinality(QualifyingPairs)
        /\ \A p \in QualifyingPairs : \E j \in DOMAIN session_matches :
              /\ session_matches[j].CRM_SYSTEM_ID = p[2]
              /\ session_matches[j].UPLOADED_COMPANY_NAME = df[p[1]].companyName
              /\ session_matches[j].UPLOADED_ADDRESS = df[p[1]].companyAddress

\* while execute_query_safe is running, every earlier attempt of the call failed on a
\* connection issue and fewer than max_retries attempts have ended
OnlyRetriableFailuresRetried ==
    pc \in QueryPcs =>
        /\ attempt < max_retries
        /\ Len(attempt_log) = attempt
        /\ \A k \in DOMAIN attempt_log :
              /\ ~attempt_log[k].ok
              /\ attempt_log[k].error_msg \cap {"502", "404", "Connection"} /= {}

\* the step in which execute_query_safe is left, unless Reset App abandons the script run:
\* it returns to line 403, where a successful attempt returns
\* the rows of the query; a failed one returns the empty table, and it is a connection
\* issue only when it was the last attempt
ReturnsRowsOrEmpty ==
    (pc \in QueryPcs /\ pc' \notin QueryPcs /\ pc' \notin {"idle", "loaded"}) =>
        LET outcome == attempt_log'[1]
            fetch == fetch_log'[Len(fetch_log')]
        IN /\ Len(attempt_log') = 1
           /\ pc' \in {"rows", "partition"}
           /\ outcome.ok =>
                 /\ fetch.result \in {"ok", "empty"}
                 /\ Len(crm_df') = Len(CrmQuery(fetch.state))
                 /\ \A k \in DOMAIN crm_df' :
                       crm_df'[k].systemId = CrmQuery(fetch.state)[k].systemId
           /\ ~outcome.ok =>
                 /\ fetch.result = "failed"
                 /\ crm_df' = <<>>
                 /\ (outcome.error_msg \cap {"502", "404", "Connection"} /= {})
                       => attempt = max_retries - 1

\* C19: execute_query_safe returns after at most max_retries attempts and never raises: a
\* failure whose message contains "502", "404" or "Connection" is retried while attempts
\* remain, any other failure returns an empty table at once, exhausted attempts return an
\* empty table, and a successful attempt returns its rows with no further attempt.
C19_QueryRetries == []OnlyRetriableFailuresRetried /\ [][ReturnsRowsOrEmpty]_vars

\* a call that gave up: its last attempt failed on a connection issue, which it does only
\* when no attempt remains, and the caller got the empty table
C19_Witness ==
    /\ pc \notin QueryPcs
    /\ attempt_log = <<Failed({"502"})>>
    /\ fetch_log /= <<>>
    /\ fetch_log[Len(fetch_log)].result = "failed"
    /\ crm_df = <<>>

\* C20: every connection an attempt of execute_query_safe opens is closed before the next
\* attempt starts and before the function returns: one connection is open while pd.read_sql
\* runs and none at any other time (conn.close() is taken to close the connection).
C20_NoConnectionLeak ==
    /\ open_conns \in {0, 1}
    /\ pc = "read_sql" => (conn /= None /\ open_conns = 1)
    /\ pc /= "read_sql" => (conn = None /\ open_conns = 0)

\* the third attempt of a call holds a connection, the two before it having failed
C20_Witness ==
    /\ pc = "read_sql"
    /\ attempt = max_retries - 1
    /\ open_conns = 1

\* whenever the script is not in the matching loop the flag is false
FlagClearAtRest == pc \notin RunPcs => ~processing

\* the loop is entered with the flag false, entering sets it and clears the stored matches;
\* the loop is left with the flag false
FlagLifecycleStep ==
    /\ (pc \notin RunPcs /\ pc' \in RunPcs) =>
          (~processing /\ processing' /\ session_matches' = <<>>)
    /\ (pc \in RunPcs /\ pc' \notin RunPcs) => ~processing'

\* after a run has ended the Start Processing button is offered again
CanStartAgain == RunEnded => StartOffered

\* a script run that is in the matching loop leaves it, the flag false
RunEnds == (pc \in RunPcs) ~> (pc \notin RunPcs /\ ~processing)

====
